---- MODULE Spec2Model ----
(***************************************************************************)
(* Model of the notebook transport (src/src/socket/index.ts, class         *)
(* Transport, second definition at lines 408-1371), of the reconnecting    *)
(* socket it drives, and of the filesystem watch adapter                   *)
(* (src/src/filesystem.ts) with the session that owns it                   *)
(* (src/src/index.ts, class NotebookInstance at lines 573-789).            *)
(*                                                                         *)
(* Scheduling: the host is single threaded.  A step of the model is one    *)
(* job of the host: a caller's synchronous call, a socket event with all   *)
(* its listeners, a timer, or the continuation of an await.  A             *)
(* continuation (a microtask) runs before any socket event or timer, so    *)
(* the socket and timer actions are disabled while one is pending.         *)
(*                                                                         *)
(* Time is counted in ticks of one limiter window (1000 ms).  The model    *)
(* keeps every timestamp as an age, Date.now() minus the timestamp, capped *)
(* where the code no longer tells two ages apart, and every timer as the   *)
(* ticks left before it may fire.                                          *)
(***************************************************************************)
EXTENDS Integers, Sequences, FiniteSets, TLC

\* ---- bounds of the model ------------------------------------------------
MaxCalls == 2        \* calls of Transport.call the model follows
MaxRetries == 1      \* retries handed to async-retry (options.retries || 10)
MaxRequests == 1     \* rateLimiter.maxRequests (50 in the source)
MaxQueue == 2        \* MAX_QUEUE_SIZE (100 in the source)
MaxEpochs == 3       \* connections the session specification follows
MaxClock == 7        \* ping intervals the keepalive specification follows
MaxPings == 3        \* keepalive pings pending at once
MaxOutput == 2       \* terminal.output events the server emits for the process
MaxMatches == 3      \* events the server emits for the text search
MaxInits == 2        \* notebook.initialized events the server emits
MaxKills == 2        \* calls of kill() on the process handle
MaxFrames == 3       \* frames the server sends in the dispatch specification

\* ---- program constants, in ticks ----------------------------------------
WindowMs == 1        \* rateLimiter.windowMs, 1000 ms
RetryMinTimeout == 1 \* minTimeout of sendWithRetry, 1000 ms
QueueTimeout == 30   \* QUEUE_TIMEOUT, 30000 ms

Calls == 1..MaxCalls

\* The CallOption values the callers use: tm, options.timeout is set; sg, the
\* state of options.abortSignal when call() runs ("none" when absent).
CallOptions == {[tm |-> FALSE, sg |-> "none"], [tm |-> TRUE, sg |-> "none"],
                [tm |-> FALSE, sg |-> "armed"], [tm |-> FALSE, sg |-> "aborted"]}

\* The paths the callers watch.
Paths == {"a", "b"}

CloseCodes == {1000, 1006, 1008}
StopCodes == {1000, 1008}
Reasons == {"", "rate limit exceeded"}

VARIABLES
  rs,               \* rws.readyState; "CONNECTING" also while the socket waits to reconnect
  shouldReconnect,  \* the reconnecting socket reconnects by itself after a close
  closed,           \* Transport.closed
  msgListener,      \* the 'message' listener of registerWatchers is installed
  pingInterval,     \* disposables holds the keepalive timer
  connectPromise,   \* Transport.connectPromise: 0 (null) or the promise's id
  promises,         \* connect promises not settled yet (their listeners and timer live)
  calls,            \* per call of Transport.call: its position and options
  nCalls,           \* call slots used so far
  sig,              \* per request: state of options.abortSignal
  busL,             \* calls whose response and error listeners are on the event bus
  closeL,           \* calls whose closeHandler is on the socket ('close' and 'error')
  messageQueue,     \* Transport.messageQueue
  rlRequests,       \* rateLimiter.requests, as ages
  srv,              \* per request: the server holds a frame it may still answer
  frames,           \* per request: frames sent so far
  sentTimes,        \* ages of the frames sent within the last window
  hist,             \* observations the properties are stated over
  \* ---- filesystem watch and session --------------------------------------
  openL,            \* the 'open' listeners registered through Transport.onDidConnect
  onCloseL,         \* the 'close' listeners registered through Transport.onDidClose
  watches,          \* Filesystem.watches: the paths in the map
  fsL,              \* per path: listeners on the bus topic fs.watch.<path>
  subs,             \* per path: "none", "live" or "disposed" (the caller's subscription)
  wpend,            \* per path: frames of invocations that wait for the connection
  wlog,             \* per path: frames the server received on the current connection
  epoch             \* connections opened so far

tvars == <<rs, shouldReconnect, closed, msgListener, pingInterval, connectPromise,
           promises, calls, nCalls, sig, busL, closeL, messageQueue, rlRequests, srv,
           frames, sentTimes, hist>>
tvarsButRs == <<shouldReconnect, closed, msgListener, pingInterval, connectPromise,
                promises, calls, nCalls, sig, busL, closeL, messageQueue, rlRequests, srv,
                frames, sentTimes, hist>>
wvars == <<openL, onCloseL, watches, fsL, subs, wpend, wlog, epoch>>

VARIABLES
  \* ---- keepalive ------------------------------------------------------------
  clock,            \* Date.now(), in ping intervals
  lastPongTime,     \* connectionStats.lastPongTime; 0 until the first pong
  openedAt,         \* clock value when the current connection opened
  pings             \* invoke('ping') promises of the keepalive not settled yet

kvars == <<clock, lastPongTime, openedAt, pings>>
tvarsButRsPing == <<shouldReconnect, closed, msgListener, connectPromise,
                    promises, calls, nCalls, sig, busL, closeL, messageQueue, rlRequests,
                    srv, frames, sentTimes, hist>>

VARIABLES
  \* ---- Terminal.spawn, one process ------------------------------------------
  proc,             \* position of spawn(): "idle", "spawning" (awaits the response), "running"
  task,             \* the process on the server: "none", "running", "exited"
  startedSent,      \* the server has emitted terminal.started for the task
  outputL,          \* bus listeners of spawn on terminal.output
  startedL,         \* bus listeners of spawn on terminal.started
  enqueued,         \* chunks the output stream's controller has enqueued
  lostOutput,       \* output events of the task that reached the bus with no listener
  outputClosed,     \* the output stream's controller was closed
  exit,             \* the exit promise: {} while pending, else {value}
  exitCode,         \* {} or {code}: the exit code the server reported with terminal.close
  ended,            \* ways the process was terminated so far
  closeFrames       \* terminal.close frames sent by kill()

pvars == <<proc, task, startedSent, outputL, startedL, enqueued, lostOutput, outputClosed,
           exit, exitCode, ended, closeFrames>>

VARIABLES
  \* ---- Filesystem.search, one query ------------------------------------------
  req,              \* the fs.textSearch request: "idle", "pending", "settled"
  searchL,          \* bus listeners of search on fs.text.search.<sid>
  emitted,          \* events the server has emitted on the topic
  invoked,          \* calls of onMatch so far
  awaited,          \* per value: promises returned by onMatch that localOnMatch awaits
  stopped           \* onMatch has returned false, directly or through its promise

fvars == <<req, searchL, emitted, invoked, awaited, stopped>>

VARIABLES
  \* ---- NotebookInstance: initialization ---------------------------------------
  lazy,             \* client.options.startClosed
  initLog,          \* types of the notebook.initialized events received, in order
  initPromise,      \* #initPromise: its state and the event whose result it holds
  rdy,              \* a call of ready(): its position and what it settled with
  pingSent,         \* the ping frame of ready() is with the server
  rc                \* a call of reconnect(): "none" or what it settled as

nvars == <<lazy, initLog, initPromise, rdy, pingSent, rc>>

VARIABLES
  \* ---- Transport: frames from the server ---------------------------------------
  nFrames,          \* frames that arrived on the socket so far
  inbox,            \* frames whose Blob is being read (arrayBuffer() pending)
  handled,          \* per frame handled, in order: its number, the frame, the topics emitted
  clientId,         \* Transport.clientId: number of the frame that set it, 0 before
  totalErrors,      \* connectionStats.totalErrors
  health,           \* the last call of getHealthStatus(): what it read and what it returned
  retryOp           \* one call's sendWithRetry: the option given, the retries used, the attempt

dvars == <<nFrames, inbox, handled, clientId, totalErrors, health, retryOp>>

VARIABLES
  \* ---- Beacon: the bridge to the iframe --------------------------------------
  retriesOpt,       \* options.retry.retries as the caller configured it
  isStarted,        \* Beacon.isStarted
  isBeaconReady,    \* Beacon.isBeaconReady
  iframeLoaded,     \* the iframe's document is loaded (waitForIframeReady resolves)
  hs,               \* readyPromise: the handshake's phase, its tries, its timer
  bcalls,           \* per call of ready() or sendAndWaitFor(): kind, phase, tries, timer, result
  lastMsg,          \* the child message handled last: type and payload
  \* ---- Navigator: the history of the iframe ------------------------------------
  urlHistory,       \* Navigator.urlHistory
  currentIndex,     \* Navigator.currentIndex (counted from 0)
  canGoBack,        \* Navigator._canGoBack
  canGoForward,     \* Navigator._canGoForward
  navOut,           \* the events the last operation emitted on the beacon's bus
  lastOp            \* the last operation of the navigator and its url

gvars == <<urlHistory, currentIndex, canGoBack, canGoForward, navOut, lastOp>>
bvars == <<retriesOpt, isStarted, isBeaconReady, iframeLoaded, hs, bcalls, lastMsg, gvars>>

VARIABLES
  \* ---- EventManager: the event bus ----------------------------------------------
  EE,               \* the module's emitter `EE`: the number of the mitt it holds
  nInst,            \* sessions and beacons constructed so far
  listeners,        \* handlers of one topic: the instance that registered, the mitt it is on
  delivered         \* the last emit: the instance that emitted, the instances it reached

evars == <<EE, nInst, listeners, delivered>>
xvarsButK == <<pvars, fvars, nvars, dvars, bvars, evars>>
xvarsButP == <<kvars, fvars, nvars, dvars, bvars, evars>>
xvarsButF == <<kvars, pvars, nvars, dvars, bvars, evars>>
xvarsButN == <<kvars, pvars, fvars, dvars, bvars, evars>>
xvarsButD == <<kvars, pvars, fvars, nvars, bvars, evars>>
xvarsButB == <<kvars, pvars, fvars, nvars, dvars, evars>>
xvarsButE == <<kvars, pvars, fvars, nvars, dvars, bvars>>
xvars == <<kvars, pvars, fvars, nvars, dvars, bvars, evars>>
vars == <<tvars, wvars, xvars>>

\* ---- error kinds a call can fail with ------------------------------------
\* ErrorEvent: typed error from the server's error topic
\* RateLimited: RateLimitError thrown by the limiter in call()
\* RateLimitClose: RateLimitError of closeHandler (close 1008, "rate limit")
\* Abort: DOMException AbortError
\* Timeout: PromiseTimeoutError of utils/promise timeout()
\* ConnLost: Error of closeHandler
\* ConnFail, ConnTimeout: Errors of #connect (socket error, 10 s timer)
\* QueueFull, QueueClosed, QueueExpired: Errors given to queued entries
Kinds == {"ErrorEvent", "RateLimited", "RateLimitClose", "Abort", "Timeout", "ConnLost",
          "ConnFail", "ConnTimeout", "QueueFull", "QueueClosed", "QueueExpired"}

\* sendWithRetry bails on ErrorEvent, RateLimitError (a subclass of ErrorEvent),
\* InvalidConfigurationError, InvalidMessageError and DOMException.
NonRetryable == {"ErrorEvent", "RateLimited", "RateLimitClose", "Abort"}

\* A call slot.  phase: "free", "connecting" (awaiting #connect), "resume" (its
\* await was resolved, the handler runs next), "pending" (frame sent, listeners
\* installed), "queued" (in messageQueue), "backoff" (waiting for the retry timer),
\* "done" (the promise of call() is settled with outcome).
NoCall == [phase |-> "free", attempt |-> 0, outcome |-> "none", errs |-> <<>>, topic |-> 0,
           tmo |-> FALSE, delay |-> 0, waitOn |-> 0]

\* lastClose: the close event that ended the last connection, while no newer
\* connection is open: "none", "policy" (code 1008 with a rate limit reason),
\* "stop" (any other 1000 or 1008) or "other"; preAborted: the calls invoked
\* with a signal that was aborted already; atClose: the calls in flight (frame
\* sent, listeners installed) when close() ran.
NoHist == [lastClose |-> "none", preAborted |-> {}, atClose |-> {}]

\* ---- helpers -------------------------------------------------------------

Topic(c) == calls[c].topic

\* A continuation of an await is pending: it runs before any socket event or timer.
MicrotaskPending == \E c \in Calls : calls[c].phase = "resume"

Quiet == ~MicrotaskPending

\* retry's mainError(): the error that occurred most often, the latest on a tie.
Count(es, k) == Cardinality({i \in DOMAIN es : es[i] = k})

MainError(es) ==
  LET best == CHOOSE i \in DOMAIN es :
                \A j \in DOMAIN es :
                   \/ Count(es, es[i]) > Count(es, es[j])
                   \/ Count(es, es[i]) = Count(es, es[j]) /\
                        (\E m \in DOMAIN es : es[m] = es[i] /\ \A n \in DOMAIN es : es[n] = es[j] => n <= m)
  IN es[best]

\* The bail list of sendWithRetry with one class missing.
BailOnMutant(k) == k \in NonRetryable \ {"ErrorEvent"}

\* sendWithRetry's catch: does error kind k end the retries?
BailOn(k) == k \in NonRetryable

\* The promise of call() settles: what the record kept for the attempts is dropped.
Done(r, o) == [r EXCEPT !.phase = "done", !.outcome = o, !.errs = <<>>, !.delay = 0,
                        !.waitOn = 0]

\* One attempt of call record r failed with kind k: bail, retry or give up.
AttemptFailed(r, k) ==
  IF BailOn(k)
  THEN Done(r, k)
  ELSE IF r.attempt <= MaxRetries
       THEN [r EXCEPT !.phase = "backoff", !.errs = Append(r.errs, k),
                      !.delay = RetryMinTimeout, !.waitOn = 0]
       ELSE Done(r, MainError(Append(r.errs, k)))

AttemptOk(r) == Done(r, "Response")

\* The calls of S end their attempt: those of ok resolve, the others fail with kind[c].
Settle(cs, S, ok, kind) ==
  [c \in Calls |-> IF c \notin S THEN cs[c]
                   ELSE IF c \in ok THEN AttemptOk(cs[c]) ELSE AttemptFailed(cs[c], kind[c])]

\* removeListeners that takes the bus topics and leaves the closeHandler.
CloseLAfterMutant(C, S) == C

\* removeListeners of the calls of S, socket side: their closeHandler is removed.
CloseLAfter(C, S) == C \ S

\* removeListeners of the calls of S, bus side: removeListener(topic) without a
\* handler drops every handler of the response and the error topic.
BusLAfter(B, S) == {d \in B : \A c \in S : Topic(c) # Topic(d)}

\* isRateLimited(): the window after the filter, and the verdict.
Window(rl) == SelectSeq(rl, LAMBDA age : age < WindowMs)

IsRateLimited(rl) == Len(Window(rl)) >= MaxRequests

RateLimiterAfter(rl) == IF IsRateLimited(rl) THEN Window(rl) ELSE Append(Window(rl), 0)

\* Queue entries whose promise is still unsettled and awaited by its call.
Awaited(e) == e.live /\ calls[e.call].phase = "queued" /\ calls[e.call].attempt = e.att

Range(q) == {q[i] : i \in DOMAIN q}

Expired(e) == e.age > QueueTimeout

\* clearOldQueuedMessages(): the entries rejected and the queue kept.
OldEntries(q) == {e \in Range(q) : Expired(e)}

KeptQueue(q) == SelectSeq(q, LAMBDA e : ~Expired(e))

LiveCalls(es) == {e.call : e \in {x \in es : x.live}}

AwaitedCalls(es) == {e.call : e \in {x \in es : Awaited(x)}}

\* rws.send: a frame leaves only on an open socket (maxEnqueuedMessages is 0).
Sends == rs = "OPEN"

\* ---- #connect() ------------------------------------------------------------

\* #connect() makes a new promise: not connected and none cached.
ConnCreates == rs # "OPEN" /\ connectPromise = 0

\* The promise an attempt of call c awaits: 0 for Promise.resolve().
ConnWait(c) == IF rs = "OPEN" THEN 0 ELSE IF connectPromise # 0 THEN connectPromise ELSE c

\* #connect() calls rws.reconnect(): a new promise and readyState 3.
ConnReopens == ConnCreates /\ rs = "CLOSED"

\* send() of call c with record r: the attempt starts and awaits #connect().
StartAttempt(r, c) ==
  [r EXCEPT !.phase = IF rs = "OPEN" THEN "resume" ELSE "connecting",
            !.waitOn = ConnWait(c), !.attempt = @ + 1]

ConnectEffects(c) ==
  /\ connectPromise' = IF ConnCreates THEN c ELSE connectPromise
  /\ promises' = IF ConnCreates THEN promises \cup {c} ELSE promises
  /\ rs' = IF ConnReopens THEN "CONNECTING" ELSE rs
  /\ shouldReconnect' = IF ConnReopens THEN TRUE ELSE shouldReconnect

\* ---- the initial state -------------------------------------------------------

\* After new Transport(url, emitter, {startClosed}): startClosed defaults to true.
InitT ==
  /\ \E startClosed \in BOOLEAN :
        /\ rs = IF startClosed THEN "CLOSED" ELSE "CONNECTING"
        /\ shouldReconnect = ~startClosed
  /\ closed = FALSE
  /\ msgListener = TRUE
  /\ pingInterval = FALSE
  /\ connectPromise = 0
  /\ promises = {}
  /\ calls = [c \in Calls |-> NoCall]
  /\ nCalls = 0
  /\ sig = [c \in Calls |-> "none"]
  /\ busL = {}
  /\ closeL = {}
  /\ messageQueue = <<>>
  /\ rlRequests = <<>>
  /\ srv = [c \in Calls |-> FALSE]
  /\ frames = [c \in Calls |-> 0]
  /\ sentTimes = <<>>
  /\ hist = NoHist

\* ---- Transport.invoke / Transport.call --------------------------------------

\* invoke(action, data, options) by a caller or by the keepalive timer: call()
\* up to the first await.  tm: options.timeout is set; sg: state of
\* options.abortSignal ("none" when absent).
Invoke(tm, sg) ==
  /\ nCalls < MaxCalls
  /\ LET c == nCalls + 1
         old == OldEntries(messageQueue)
         S == AwaitedCalls(old)
         L == LiveCalls(old)
         base == [NoCall EXCEPT !.topic = c, !.tmo = tm]
         cs1 == Settle(calls, S, {}, [x \in S |-> "QueueExpired"])
     IN /\ nCalls' = c
        /\ sig' = [sig EXCEPT ![c] = sg]
        /\ hist' = [hist EXCEPT !.preAborted = IF sg = "aborted" THEN @ \cup {c} ELSE @]
        /\ rlRequests' = RateLimiterAfter(rlRequests)
        /\ IF IsRateLimited(rlRequests)
           THEN /\ calls' = [calls EXCEPT
                               ![c] = Done(base, "RateLimited")]
                /\ UNCHANGED <<rs, shouldReconnect, connectPromise, promises, messageQueue,
                               busL, closeL>>
           ELSE /\ messageQueue' = KeptQueue(messageQueue)
                /\ busL' = BusLAfter(busL, L)
                /\ closeL' = CloseLAfter(closeL, L)
                /\ calls' = [cs1 EXCEPT ![c] = StartAttempt(base, c)]
                /\ ConnectEffects(c)
  /\ UNCHANGED <<closed, msgListener, pingInterval, srv, frames, sentTimes>>
  /\ UNCHANGED <<wvars, xvars>>

\* The bookkeeping of one frame leaving for request t.
FrameSent(t) ==
  /\ frames' = [frames EXCEPT ![t] = @ + 1]
  /\ srv' = [srv EXCEPT ![t] = TRUE]
  /\ sentTimes' = IF Len(sentTimes) > MaxRequests THEN sentTimes ELSE Append(sentTimes, 0)

\* The executor of new Promise(handler) in send(), run when the await of
\* #connect() resumes, together with the .finally(removeListeners) and the
\* catch of sendWithRetry when the signal is already aborted.
Handler(c) ==
  /\ calls[c].phase = "resume"
  /\ LET t == Topic(c)
         ab == sig[t] = "aborted"
         queue == rs # "OPEN" /\ ~closed
         full == Len(messageQueue) >= MaxQueue
         dropped == IF queue /\ full THEN {Head(messageQueue)} ELSE {}
         S == AwaitedCalls(dropped)
         L == LiveCalls(dropped)
         entry == [call |-> c, att |-> calls[c].attempt, age |-> 0, live |-> ~ab]
         cs1 == Settle(calls, S, {}, [x \in S |-> "QueueFull"])
         me == IF ab THEN AttemptFailed(calls[c], "Abort")
               ELSE [calls[c] EXCEPT !.phase = IF queue THEN "queued" ELSE "pending"]
         gone == IF ab THEN L \cup {c} ELSE L
     IN /\ calls' = [cs1 EXCEPT ![c] = me]
        /\ messageQueue' =
             IF queue
             THEN Append(IF full THEN Tail(messageQueue) ELSE messageQueue, entry)
             ELSE messageQueue
        /\ busL' = BusLAfter(IF queue THEN busL ELSE busL \cup {c}, gone)
        /\ closeL' = CloseLAfter(IF queue THEN closeL ELSE closeL \cup {c}, gone)
        /\ IF ~queue /\ Sends
           THEN FrameSent(t)
           ELSE UNCHANGED <<frames, srv, sentTimes>>
  /\ UNCHANGED <<rs, shouldReconnect, closed, msgListener, pingInterval, connectPromise,
                 promises, nCalls, sig, rlRequests, hist>>
  /\ UNCHANGED <<wvars, xvars>>

\* A server frame for request t arrives: event "response" (ok) or "error".
\* handleRawMessage emits the inner topic; the one-shot listeners settle the
\* attempts listening on it and removeListeners runs.  A frame that finds no
\* listener changes nothing and is left out.
Reply(t, ok) ==
  /\ Quiet
  /\ rs = "OPEN"
  /\ srv[t]
  /\ msgListener
  /\ srv' = [srv EXCEPT ![t] = FALSE]
  /\ LET S == {d \in busL : Topic(d) = t}
     IN /\ S # {}
        /\ calls' = Settle(calls, S, IF ok THEN S ELSE {}, [x \in S |-> "ErrorEvent"])
        /\ busL' = BusLAfter(busL, S)
        /\ closeL' = CloseLAfter(closeL, S)
  /\ UNCHANGED <<rs, shouldReconnect, closed, msgListener, pingInterval, connectPromise,
                 promises, nCalls, sig, messageQueue, rlRequests, frames, sentTimes, hist>>
  /\ UNCHANGED <<wvars, xvars>>

\* The timer of timeout(promise, options.timeout) fires for an attempt of c.
RequestTimeout(c) ==
  /\ Quiet
  /\ calls[c].phase \in {"pending", "queued"}
  /\ calls[c].tmo
  /\ calls' = Settle(calls, {c}, {}, [x \in {c} |-> "Timeout"])
  /\ busL' = BusLAfter(busL, {c})
  /\ closeL' = CloseLAfter(closeL, {c})
  /\ UNCHANGED <<rs, shouldReconnect, closed, msgListener, pingInterval, connectPromise,
                 promises, nCalls, sig, messageQueue, rlRequests, srv, frames, sentTimes, hist>>
  /\ UNCHANGED <<wvars, xvars>>

\* The caller fires the abort signal of request t: the 'abort' listeners of the
\* attempts reject with the AbortError.
Abort(t) ==
  /\ sig[t] = "armed"
  /\ sig' = [sig EXCEPT ![t] = "aborted"]
  /\ LET S == {c \in Calls : Topic(c) = t /\ calls[c].phase \in {"pending", "queued"}}
     IN /\ calls' = Settle(calls, S, {}, [x \in S |-> "Abort"])
        /\ busL' = BusLAfter(busL, S)
        /\ closeL' = CloseLAfter(closeL, S)
  /\ messageQueue' = [i \in DOMAIN messageQueue |->
                        IF Topic(messageQueue[i].call) = t
                        THEN [messageQueue[i] EXCEPT !.live = FALSE]
                        ELSE messageQueue[i]]
  /\ UNCHANGED <<rs, shouldReconnect, closed, msgListener, pingInterval, connectPromise,
                 promises, nCalls, rlRequests, srv, frames, sentTimes, hist>>
  /\ UNCHANGED <<wvars, xvars>>

\* The retry timer of async-retry fires: sender() runs again.
RetryFire(c) ==
  /\ Quiet
  /\ calls[c].phase = "backoff"
  /\ calls[c].delay = 0
  /\ calls' = [calls EXCEPT ![c] = StartAttempt(calls[c], c)]
  /\ ConnectEffects(c)
  /\ UNCHANGED <<closed, msgListener, pingInterval, nCalls, sig, busL, closeL,
                 messageQueue, rlRequests, srv, frames, sentTimes, hist>>
  /\ UNCHANGED <<wvars, xvars>>

\* ---- the socket's events ------------------------------------------------------

\* processMessageQueue(): the entries in order; an expired one is rejected, any
\* other is handed to call() again, whose promise feeds the entry's resolve and
\* reject: the limiter is asked, then the handler runs once #connect() has
\* resolved, which it does at once on the open socket.  The inner call is
\* followed in the slot of the attempt that queued the entry.
\* st = [cs: the calls, rl: rateLimiter.requests].
RECURSIVE ProcessMessageQueue(_, _)
ProcessMessageQueue(q, st) ==
  IF q = <<>> THEN st
  ELSE LET e == Head(q)
           r == st.cs[e.call]
       IN ProcessMessageQueue(Tail(q),
            IF ~Awaited(e) THEN st
            ELSE IF Expired(e)
                 THEN [st EXCEPT !.cs[e.call] = AttemptFailed(r, "QueueExpired")]
                 ELSE [cs |-> [st.cs EXCEPT ![e.call] =
                                 IF IsRateLimited(st.rl) THEN AttemptFailed(r, "RateLimited")
                                 ELSE [r EXCEPT !.phase = "resume"]],
                       rl |-> RateLimiterAfter(st.rl)])

\* The socket opens: the 'open' listener of setupConnectionHealthMonitoring
\* flushes the queue, and the openHandler of every unsettled connect promise
\* clears connectPromise, resolves and starts the keepalive.
SocketOpen ==
  /\ Quiet
  /\ rs = "CONNECTING"
  /\ rs' = "OPEN"
  /\ LET st == ProcessMessageQueue(messageQueue,
                                   [cs |-> calls, rl |-> rlRequests])
         L == LiveCalls(OldEntries(messageQueue))
     IN /\ calls' = [c \in Calls |->
                       IF st.cs[c].phase = "connecting"
                       THEN [st.cs[c] EXCEPT !.phase = "resume", !.waitOn = 0]
                       ELSE st.cs[c]]
        /\ rlRequests' = st.rl
        /\ busL' = BusLAfter(busL, L)
        /\ closeL' = CloseLAfter(closeL, L)
  /\ messageQueue' = <<>>
  /\ connectPromise' = IF promises # {} THEN 0 ELSE connectPromise
  /\ promises' = {}
  /\ pingInterval' = (pingInterval \/ promises # {})
  /\ hist' = [hist EXCEPT !.lastClose = "none"]
  /\ UNCHANGED <<shouldReconnect, closed, msgListener, nCalls, sig, srv, frames, sentTimes>>
  /\ UNCHANGED <<wvars, xvars>>

\* closeHandler of call(): the error an attempt is rejected with.
CloseKind(code, reason) ==
  IF code = 1008 /\ reason = "rate limit exceeded" THEN "RateLimitClose" ELSE "ConnLost"

\* handleConnectionClose(code) returns 'stop' for 1000 and 1008; its caller, the
\* 'close' listener of setupConnectionHealthMonitoring, drops the value, so no
\* close code keeps the socket from reconnecting.
StopsReconnect(code) == FALSE

\* The socket closes with (code, reason): by the server or the network when it is
\* open, or as the end of the closing handshake started by close().  The
\* closeHandler of every attempt in flight rejects it; handleConnectionClose
\* clears expired queue entries on 1008; the socket reconnects by itself unless
\* close() was called on it.
SocketClose(code, reason) ==
  /\ Quiet
  /\ rs \in {"OPEN", "CLOSING"}
  /\ rs = "CLOSING" => (code = 1000 /\ reason = "")
  /\ LET old == IF code = 1008 THEN OldEntries(messageQueue) ELSE {}
         Q == AwaitedCalls(old)
         S == closeL \cup Q
         gone == closeL \cup LiveCalls(old)
     IN /\ calls' = Settle(calls, S, {},
                           [x \in S |-> IF x \in closeL THEN CloseKind(code, reason)
                                        ELSE "QueueExpired"])
        /\ busL' = BusLAfter(busL, gone)
        /\ closeL' = CloseLAfter(closeL, gone)
        /\ messageQueue' = IF code = 1008 THEN KeptQueue(messageQueue) ELSE messageQueue
  /\ rs' = IF shouldReconnect /\ ~StopsReconnect(code) THEN "CONNECTING" ELSE "CLOSED"
  /\ srv' = [t \in Calls |-> FALSE]
  /\ hist' = [hist EXCEPT !.lastClose = IF CloseKind(code, reason) = "RateLimitClose"
                                        THEN "policy"
                                        ELSE IF code \in StopCodes THEN "stop" ELSE "other"]
  /\ UNCHANGED <<shouldReconnect, closed, msgListener, pingInterval, connectPromise,
                 promises, nCalls, sig, rlRequests, frames, sentTimes>>
  /\ UNCHANGED <<wvars, xvars>>

\* A connection attempt fails: the socket reports 'close' and 'error' and tries
\* again.  The errorHandler of every unsettled connect promise clears
\* connectPromise and rejects; a closeHandler still installed rejects its attempt.
SocketError ==
  /\ Quiet
  /\ rs = "CONNECTING"
  /\ LET W == {c \in Calls : calls[c].phase = "connecting"}
         S == closeL \cup W
     IN /\ calls' = Settle(calls, S, {},
                           [x \in S |-> IF x \in W THEN "ConnFail" ELSE "ConnLost"])
        /\ busL' = BusLAfter(busL, closeL)
        /\ closeL' = CloseLAfter(closeL, closeL)
  /\ connectPromise' = IF promises # {} THEN 0 ELSE connectPromise
  /\ promises' = {}
  /\ UNCHANGED <<rs, shouldReconnect, closed, msgListener, pingInterval, nCalls, sig,
                 messageQueue, rlRequests, srv, frames, sentTimes, hist>>
  /\ UNCHANGED <<wvars, xvars>>

\* The 10 s timer of connect promise p fires: it clears connectPromise, whatever
\* promise is cached, and rejects.
ConnectTimeout(p) ==
  /\ Quiet
  /\ p \in promises
  /\ LET W == {c \in Calls : calls[c].phase = "connecting" /\ calls[c].waitOn = p}
     IN calls' = Settle(calls, W, {}, [x \in W |-> "ConnTimeout"])
  /\ connectPromise' = 0
  /\ promises' = promises \ {p}
  /\ UNCHANGED <<rs, shouldReconnect, closed, msgListener, pingInterval, nCalls, sig,
                 busL, closeL, messageQueue, rlRequests, srv, frames, sentTimes, hist>>
  /\ UNCHANGED <<wvars, xvars>>

\* ---- Transport.close() ------------------------------------------------------

\* close(): a no-op when already closed; else the queue is rejected and cleared,
\* the limiter cleared, the disposables (keepalive, maintenance, 'message'
\* listener) disposed, the socket closed.  The 'transport.closed' event carries
\* getConnectionMetrics(), which asks isRateLimited() and so stamps the cleared
\* limiter.  A socket that is connecting either enters the closing handshake
\* or, when only its reconnect timer was pending, is closed at once.
Close ==
  /\ ~closed
  /\ closed' = TRUE
  /\ connectPromise' = 0
  /\ LET es == Range(messageQueue)
         S == AwaitedCalls(es)
         L == LiveCalls(es)
     IN /\ calls' = Settle(calls, S, {}, [x \in S |-> "QueueClosed"])
        /\ busL' = BusLAfter(busL, L)
        /\ closeL' = CloseLAfter(closeL, L)
  /\ messageQueue' = <<>>
  /\ rlRequests' = RateLimiterAfter(<<>>)
  /\ msgListener' = FALSE
  /\ pingInterval' = FALSE
  /\ shouldReconnect' = FALSE
  /\ \/ rs \in {"OPEN", "CONNECTING"} /\ rs' = "CLOSING"
     \/ rs \in {"CONNECTING", "CLOSED"} /\ rs' = "CLOSED"
  /\ hist' = [hist EXCEPT !.atClose = {c \in Calls : calls[c].phase \in {"pending", "queued"}}]
  /\ UNCHANGED <<promises, nCalls, sig, srv, frames, sentTimes>>
  /\ UNCHANGED <<wvars, xvars>>

\* ---- the rest -------------------------------------------------------------------

\* One tick passes: every age grows, every retry timer runs down.  A limiter
\* stamp that left the window is dropped: isRateLimited() filters it out before
\* it counts.
Older(a, cap) == IF a < cap THEN a + 1 ELSE a

Aged(ages) == SelectSeq([i \in DOMAIN ages |-> ages[i] + 1], LAMBDA age : age < WindowMs)

Tick ==
  /\ Quiet
  /\ rlRequests' = Aged(rlRequests)
  /\ sentTimes' = Aged(sentTimes)
  /\ messageQueue' = [i \in DOMAIN messageQueue |->
                        [messageQueue[i] EXCEPT !.age = Older(@, QueueTimeout + 1)]]
  /\ calls' = [c \in Calls |->
                 IF calls[c].delay > 0 THEN [calls[c] EXCEPT !.delay = @ - 1] ELSE calls[c]]
  /\ UNCHANGED <<rs, shouldReconnect, closed, msgListener, pingInterval, connectPromise,
                 promises, nCalls, sig, busL, closeL, srv, frames, hist>>
  /\ UNCHANGED <<wvars, xvars>>

\* ---- the session and its filesystem watches ---------------------------------
\* The session specification follows NotebookInstance and Filesystem over the
\* socket: an invocation is followed only as the frame it sends, at once on an
\* open socket, else when the connection it asked for opens.

NoFrames == [p \in Paths |-> <<>>]

\* After new NotebookInstance(data, client): watchConnection() has registered
\* its 'open' and 'close' listeners, Filesystem its 'okra.connected' listener.
InitW ==
  /\ openL = {"watchConnection"}
  /\ onCloseL = {"watchConnection"}
  /\ watches = {}
  /\ fsL = [p \in Paths |-> 0]
  /\ subs = [p \in Paths |-> "none"]
  /\ wpend = NoFrames
  /\ wlog = NoFrames
  /\ epoch = 0

\* NamedDisposable.add(key, d): a disposable already held under the key is
\* disposed, so the listener registered before is removed.
NamedAdd(old, l) == {l}

\* NotebookInstance.invoke for path p, sending fs: the frames leave on an open
\* socket; else #connect() opens the socket and they leave when it is open.
SessionInvoke(p, fs) ==
  /\ wlog' = IF rs = "OPEN" THEN [wlog EXCEPT ![p] = @ \o fs] ELSE wlog
  /\ wpend' = IF rs = "OPEN" THEN wpend ELSE [wpend EXCEPT ![p] = @ \o fs]
  /\ rs' = IF rs = "CLOSED" THEN "CONNECTING" ELSE rs

\* Filesystem.watch(path, options, onDidChange) by the caller.
FsWatch(p) ==
  /\ subs[p] = "none"
  /\ subs' = [subs EXCEPT ![p] = "live"]
  /\ fsL' = [fsL EXCEPT ![p] = @ + 1]
  /\ watches' = watches \cup {p}
  /\ SessionInvoke(p, <<"fs.watch">>)
  /\ UNCHANGED <<openL, onCloseL, epoch>>
  /\ UNCHANGED <<tvarsButRs, xvars>>

\* FilesystemSubscription.dispose() by the caller: it invokes fs.unwatch, then
\* disposes the wrapped disposable, which removes one listener and invokes
\* fs.unwatch again.  The entry of Filesystem.watches stays.
FsDispose(p) ==
  /\ subs[p] = "live"
  /\ subs' = [subs EXCEPT ![p] = "disposed"]
  /\ fsL' = [fsL EXCEPT ![p] = IF @ > 0 THEN @ - 1 ELSE 0]
  /\ SessionInvoke(p, <<"fs.unwatch", "fs.unwatch">>)
  /\ UNCHANGED <<openL, onCloseL, watches, epoch>>
  /\ UNCHANGED <<tvarsButRs, xvars>>

\* NotebookInstance.ready() on a lazily closed socket: it invokes ping, which
\* makes the transport connect.
Ready ==
  /\ rs = "CLOSED"
  /\ rs' = "CONNECTING"
  /\ UNCHANGED wvars
  /\ UNCHANGED <<tvarsButRs, xvars>>

\* NotebookInstance.whenConnected() while not connected (reconnect() starts
\* with it): Transport.onDidConnect registers the resolver under the key
\* 'connect'.
WhenConnected ==
  /\ rs # "OPEN"
  /\ openL' = NamedAdd(openL, "waiter")
  /\ UNCHANGED <<onCloseL, watches, fsL, subs, wpend, wlog, epoch>>
  /\ UNCHANGED <<tvars, xvars>>

\* NotebookInstance.connected() while not connected: onDidConnect and onDidClose.
Connected ==
  /\ rs # "OPEN"
  /\ openL' = NamedAdd(openL, "waiter")
  /\ onCloseL' = NamedAdd(onCloseL, "waiter")
  /\ UNCHANGED <<watches, fsL, subs, wpend, wlog, epoch>>
  /\ UNCHANGED <<tvars, xvars>>

\* The socket opens.  The 'open' listener of watchConnection, when it is still
\* registered, emits 'okra.connected': Filesystem calls watch() again for every
\* entry of its map, which adds a listener and invokes fs.watch.  The
\* invocations that waited for the connection resume after these.
SessionOpen ==
  /\ rs = "CONNECTING"
  /\ epoch < MaxEpochs
  /\ rs' = "OPEN"
  /\ epoch' = epoch + 1
  /\ LET re == IF "watchConnection" \in openL THEN watches ELSE {}
     IN /\ fsL' = [p \in Paths |-> IF p \in re THEN fsL[p] + 1 ELSE fsL[p]]
        /\ wlog' = [p \in Paths |->
                      (IF p \in re THEN <<"fs.watch">> ELSE <<>>) \o wpend[p]]
  /\ wpend' = NoFrames
  /\ UNCHANGED <<openL, onCloseL, watches, subs>>
  /\ UNCHANGED <<tvarsButRs, xvars>>

\* The connection is lost: the socket reconnects by itself, the server forgets
\* the connection's watches.
SessionClose ==
  /\ rs = "OPEN"
  /\ rs' = "CONNECTING"
  /\ wlog' = NoFrames
  /\ UNCHANGED <<openL, onCloseL, watches, fsL, subs, wpend, epoch>>
  /\ UNCHANGED <<tvarsButRs, xvars>>

\* NotebookInstance.dispose(): the disposables of the session (its listeners on
\* okra.connected, okra.disconnected and notebook.initialized) are disposed,
\* then Transport.disconnect() closes the transport, which disposes its own
\* 'connect', 'close', 'message' and keepalive entries and closes the socket.
\* The listeners registered through listen() stay where they are.
SessionDispose ==
  /\ ~closed
  /\ closed' = TRUE
  /\ rs' = "CLOSED"
  /\ shouldReconnect' = FALSE
  /\ msgListener' = FALSE
  /\ pingInterval' = FALSE
  /\ openL' = {}
  /\ onCloseL' = {}
  /\ UNCHANGED <<watches, fsL, subs, wpend, wlog, epoch>>
  /\ UNCHANGED <<connectPromise, promises, calls, nCalls, sig, busL, closeL, messageQueue,
                 rlRequests, srv, frames, sentTimes, hist>>
  /\ UNCHANGED xvars

\* ---- keepalive -----------------------------------------------------------------
\* The keepalive specification follows #startPeriodicPing over the socket. Time
\* is counted in ping intervals. invoke('ping') carries no timeout option, so a
\* ping settles only with the server's answer or with a failure of the call.

\* The keepalive asks for a reconnect when the last pong is older than this
\* many intervals.
PingFactor == 3

\* Ways invoke('ping') rejects: an error reply, the limiter's rejection, the
\* connection lost with the retries used up.
PingFailures == {"ErrorEvent", "RateLimited", "ConnLost"}

InitK ==
  /\ clock = 1
  /\ lastPongTime = 0
  /\ openedAt = 0
  /\ pings = 0

Max(a, b) == IF a >= b THEN a ELSE b

\* The socket opens. byCall: a call waits in #connect(), whose openHandler
\* starts the keepalive; a socket that opens by itself starts nothing.
KeepaliveOpen(byCall) ==
  /\ rs # "OPEN"
  /\ rs' = "OPEN"
  /\ pingInterval' = (pingInterval \/ byCall)
  /\ openedAt' = clock
  /\ UNCHANGED <<clock, lastPongTime, pings>>
  /\ UNCHANGED <<tvarsButRsPing, wvars, xvarsButK>>

\* One interval passes; a running keepalive timer fires: lastPingTime is set
\* and invoke('ping') is awaited.
PingTick ==
  /\ clock < MaxClock
  /\ clock' = clock + 1
  /\ pings' = IF pingInterval /\ pings < MaxPings THEN pings + 1 ELSE pings
  /\ UNCHANGED <<lastPongTime, openedAt>>
  /\ UNCHANGED <<tvars, wvars, xvarsButK>>

\* The server answers a ping: the await returns and lastPongTime is set.
Pong ==
  /\ rs = "OPEN"
  /\ pings > 0
  /\ pings' = pings - 1
  /\ lastPongTime' = clock
  /\ UNCHANGED <<clock, openedAt>>
  /\ UNCHANGED <<tvars, wvars, xvarsButK>>

\* Date.now() - lastPongTime > PING_INTERVAL * 3, evaluated in the catch.
PongOverdue == lastPongTime = 0 \/ clock - lastPongTime > PingFactor

\* invoke('ping') rejects: the catch block runs and, with the last pong
\* overdue, calls rws.reconnect(), which closes the socket and connects again.
PingFail(k) ==
  /\ pings > 0
  /\ k = "ErrorEvent" => rs = "OPEN"
  /\ k = "ConnLost" => rs # "OPEN"
  /\ pings' = pings - 1
  /\ rs' = IF PongOverdue THEN "CONNECTING" ELSE rs
  /\ UNCHANGED <<clock, lastPongTime, openedAt>>
  /\ UNCHANGED <<tvarsButRs, wvars, xvarsButK>>

\* The close event of the socket: the reconnecting socket connects again, the
\* pings in flight are retried by sendWithRetry.
KeepaliveClose ==
  /\ rs = "OPEN"
  /\ rs' = "CONNECTING"
  /\ UNCHANGED kvars
  /\ UNCHANGED <<tvarsButRs, wvars, xvarsButK>>

\* ---- Terminal.spawn ------------------------------------------------------------
\* The terminal specification follows one call of Terminal.spawn on an open
\* socket and the events the server emits for its task.

ExitCodes == {0, 1}

InitP ==
  /\ proc = "idle"
  /\ task = "none"
  /\ startedSent = FALSE
  /\ outputL = 0
  /\ startedL = 0
  /\ enqueued = 0
  /\ lostOutput = 0
  /\ outputClosed = FALSE
  /\ exit = {}
  /\ exitCode = {}
  /\ ended = {}
  /\ closeFrames = 0

\* spawn(command, args): the terminal.spawn frame is sent and the response is
\* awaited; the server starts the task.
TerminalSpawn ==
  /\ proc = "idle"
  /\ proc' = "spawning"
  /\ task' = "running"
  /\ UNCHANGED <<startedSent, outputL, startedL, enqueued, lostOutput, outputClosed, exit,
                 exitCode, ended>>
  /\ UNCHANGED <<closeFrames, tvars, wvars, xvarsButP>>

\* The response of terminal.spawn arrives: the streams are built, the start
\* callback of the output stream listens on terminal.output, the exit promise
\* listens on terminal.started, the handle is returned.
SpawnResponse ==
  /\ proc = "spawning"
  /\ proc' = "running"
  /\ outputL' = outputL + 1
  /\ startedL' = startedL + 1
  /\ UNCHANGED <<task, startedSent, enqueued, lostOutput, outputClosed, exit, exitCode, ended>>
  /\ UNCHANGED <<closeFrames, tvars, wvars, xvarsButP>>

\* The server emits terminal.output for the task: the listener enqueues data
\* whose id is the task's.
TerminalOutput ==
  /\ task = "running"
  /\ enqueued + lostOutput < MaxOutput
  /\ enqueued' = IF outputL > 0 THEN enqueued + 1 ELSE enqueued
  /\ lostOutput' = IF outputL = 0 /\ ended = {} THEN lostOutput + 1 ELSE lostOutput
  /\ UNCHANGED <<proc, task, startedSent, outputL, startedL, outputClosed, exit, exitCode,
                 ended>>
  /\ UNCHANGED <<closeFrames, tvars, wvars, xvarsButP>>

\* The server emits terminal.started for the task: the listener of the exit
\* promise resolves it with 0.
TerminalStarted ==
  /\ task = "running"
  /\ ~startedSent
  /\ startedSent' = TRUE
  /\ exit' = IF startedL > 0 /\ exit = {} THEN {0} ELSE exit
  /\ UNCHANGED <<proc, task, outputL, startedL, enqueued, lostOutput, outputClosed, exitCode,
                 ended>>
  /\ UNCHANGED <<closeFrames, tvars, wvars, xvarsButP>>

\* The task exits on the server, which emits terminal.close with the exit
\* code: spawn() has no listener for it.
TerminalClose(code) ==
  /\ task = "running"
  /\ task' = "exited"
  /\ exitCode' = {code}
  /\ ended' = ended \cup {"close"}
  /\ UNCHANGED <<proc, startedSent, outputL, startedL, enqueued, lostOutput, outputClosed, exit>>
  /\ UNCHANGED <<closeFrames, tvars, wvars, xvarsButP>>

\* dispose(): the disposables of spawn are disposed; the set holds the output
\* listener only.
DisposedOutputL == 0

\* kill(): dispose(), then terminal.close is invoked, whatever was done before,
\* and the server ends the task.
Kill ==
  /\ proc = "running"
  /\ closeFrames < MaxKills
  /\ closeFrames' = closeFrames + 1
  /\ outputL' = DisposedOutputL
  /\ task' = "exited"
  /\ ended' = ended \cup {"kill"}
  /\ UNCHANGED <<proc, startedSent, startedL, enqueued, lostOutput, outputClosed, exit, exitCode>>
  /\ UNCHANGED <<tvars, wvars, xvarsButP>>

\* The caller closes the input stream: its close callback is dispose.
CloseInput ==
  /\ proc = "running"
  /\ "input" \notin ended
  /\ outputL' = DisposedOutputL
  /\ ended' = ended \cup {"input"}
  /\ UNCHANGED <<proc, task, startedSent, startedL, enqueued, lostOutput, outputClosed, exit,
                 exitCode>>
  /\ UNCHANGED <<closeFrames, tvars, wvars, xvarsButP>>

\* ---- Filesystem.search ----------------------------------------------------------
\* The search specification follows one call of Filesystem.search with an
\* onMatch callback, the events of its topic and the callback's results.

\* What onMatch returns: a value at once or a promise of it; FALSE stands for
\* false, TRUE for any other value.
Returns == [promise : BOOLEAN, value : BOOLEAN]

InitF ==
  /\ req = "idle"
  /\ searchL = 0
  /\ emitted = 0
  /\ invoked = 0
  /\ awaited = [v \in BOOLEAN |-> 0]
  /\ stopped = FALSE

\* search(query, options, onMatch): localOnMatch listens on the topic, then
\* fs.textSearch is invoked.
Search ==
  /\ req = "idle"
  /\ req' = "pending"
  /\ searchL' = searchL + 1
  /\ UNCHANGED <<emitted, invoked, awaited, stopped>>
  /\ UNCHANGED <<tvars, wvars, xvarsButF>>

\* `if (ret === false) disposable.dispose()`
StopsSearchMutant(value) == FALSE
StopsSearch(value) == value = FALSE

\* The server emits an event on the topic; end: the result is false, the mark
\* of the last event.  With the listener on, localOnMatch runs: it disposes on
\* the mark, calls onMatch and awaits what that returns; a value returned at
\* once is handled before any other event.
SearchEvent(end, ret) ==
  /\ req # "idle"
  /\ emitted < MaxMatches
  /\ emitted' = emitted + 1
  /\ IF searchL > 0
       THEN /\ invoked' = invoked + 1
            /\ awaited' = IF ret.promise THEN [awaited EXCEPT ![ret.value] = @ + 1]
                                          ELSE awaited
            /\ searchL' = IF end \/ (~ret.promise /\ StopsSearch(ret.value))
                             THEN 0 ELSE searchL
            /\ stopped' = (stopped \/ (~ret.promise /\ ret.value = FALSE))
       ELSE UNCHANGED <<invoked, awaited, searchL, stopped>>
  /\ UNCHANGED req
  /\ UNCHANGED <<tvars, wvars, xvarsButF>>

\* A promise returned by onMatch resolves with value: localOnMatch resumes.
OnMatchResolves(value) ==
  /\ awaited[value] > 0
  /\ awaited' = [awaited EXCEPT ![value] = @ - 1]
  /\ searchL' = IF StopsSearch(value) THEN 0 ELSE searchL
  /\ stopped' = (stopped \/ value = FALSE)
  /\ UNCHANGED <<req, emitted, invoked>>
  /\ UNCHANGED <<tvars, wvars, xvarsButF>>

\* The fs.textSearch request resolves or rejects: finally disposes.
SearchSettles ==
  /\ req = "pending"
  /\ req' = "settled"
  /\ searchL' = 0
  /\ UNCHANGED <<emitted, invoked, awaited, stopped>>
  /\ UNCHANGED <<tvars, wvars, xvarsButF>>

\* ---- NotebookInstance: ready and reconnect ---------------------------------------
\* The initialization specification follows #init, ready() and reconnect() of
\* one NotebookInstance over the socket.  An init result is kept as its type
\* and the number of the event that carried it.

InitTypes == {"success", "error"}
NoResult == [type |-> "none", n |-> 0]

\* After the constructor: #init() has made #initPromise and its listener on
\* notebook.initialized is on the bus.
InitN ==
  /\ lazy = (rs = "CLOSED")
  /\ initLog = <<>>
  /\ initPromise = NoResult
  /\ rdy = [phase |-> "none", val |-> NoResult, pinged |-> FALSE, wasClosed |-> FALSE]
  /\ pingSent = FALSE
  /\ rc = "none"

\* The listener of #init: reject(NotebookInitError) on a result of type error,
\* else resolve(result); a settled promise stays as it is.
InitOutcomeMutant(type, n) == [type |-> "success", n |-> n]
InitOutcome(type, n) == [type |-> type, n |-> n]

\* `return this.#initPromise` in ready(): the call settles as the promise has,
\* or waits for it.
AwaitInit(r, p) ==
  IF p = NoResult THEN [r EXCEPT !.phase = "wait"]
  ELSE [r EXCEPT !.phase = IF p.type = "error" THEN "rejected" ELSE "resolved",
                 !.val = p]

\* ready(): on a lazy client whose socket is not connected it awaits
\* socket.invoke('ping'), which makes the transport connect; else it returns
\* #initPromise.
ReadyCall ==
  /\ rdy.phase \in {"none", "resolved", "rejected"}
  /\ LET r == [phase |-> "none", val |-> NoResult, pinged |-> FALSE,
                wasClosed |-> (lazy /\ rs # "OPEN")]
     IN IF r.wasClosed
          THEN /\ rdy' = [r EXCEPT !.phase = "ping"]
               /\ rs' = IF rs = "CLOSED" THEN "CONNECTING" ELSE rs
          ELSE /\ rdy' = AwaitInit(r, initPromise)
               /\ rs' = rs
  /\ pingSent' = FALSE
  /\ UNCHANGED <<lazy, initLog, initPromise, rc>>
  /\ UNCHANGED <<tvarsButRs, wvars, xvarsButN>>

\* The socket opens: a ping that waited for the connection is sent.
InitSocketOpen ==
  /\ rs = "CONNECTING"
  /\ rs' = "OPEN"
  /\ pingSent' = (rdy.phase = "ping")
  /\ rdy' = IF rdy.phase = "ping" THEN [rdy EXCEPT !.pinged = TRUE] ELSE rdy
  /\ UNCHANGED <<lazy, initLog, initPromise, rc>>
  /\ UNCHANGED <<tvarsButRs, wvars, xvarsButN>>

\* The connection is lost: the socket reconnects, sendWithRetry sends the ping
\* again on the next connection.
InitSocketClose ==
  /\ rs = "OPEN"
  /\ rs' = "CONNECTING"
  /\ pingSent' = FALSE
  /\ UNCHANGED <<lazy, initLog, initPromise, rdy, rc>>
  /\ UNCHANGED <<tvarsButRs, wvars, xvarsButN>>

\* The server answers the ping of ready(): with a response ready() goes on to
\* #initPromise, with an error it rejects with that error.
PingResponse(ok) ==
  /\ rs = "OPEN"
  /\ rdy.phase = "ping"
  /\ pingSent
  /\ pingSent' = FALSE
  /\ rdy' = IF ok THEN AwaitInit(rdy, initPromise)
                  ELSE [rdy EXCEPT !.phase = "rejected",
                                   !.val = [type |-> "ping", n |-> 0]]
  /\ UNCHANGED <<lazy, initLog, initPromise, rc>>
  /\ UNCHANGED <<tvars, wvars, xvarsButN>>

\* The server emits notebook.initialized: the listener of #init settles
\* #initPromise if it is pending, and a ready() that waits for it resumes.
InitEvent(type) ==
  /\ rs = "OPEN"
  /\ Len(initLog) < MaxInits
  /\ initLog' = Append(initLog, type)
  /\ initPromise' = IF initPromise = NoResult
                       THEN InitOutcome(type, Len(initLog) + 1)
                       ELSE initPromise
  /\ rdy' = IF rdy.phase = "wait" THEN AwaitInit(rdy, initPromise') ELSE rdy
  /\ UNCHANGED <<lazy, pingSent, rc>>
  /\ UNCHANGED <<tvars, wvars, xvarsButN>>

\* reconnect(): whenConnected() registers its resolver when the socket is not
\* connected; then this.socket.reconnect() is called, which Transport does not
\* define: the call throws a TypeError and the promise of reconnect() rejects.
Reconnect ==
  /\ rc = "none"
  /\ openL' = IF rs # "OPEN" THEN NamedAdd(openL, "waiter") ELSE openL
  /\ rc' = "TypeError"
  /\ UNCHANGED <<lazy, initLog, initPromise, rdy, pingSent>>
  /\ UNCHANGED <<onCloseL, watches, fsL, subs, wpend, wlog, epoch>>
  /\ UNCHANGED <<tvars, xvarsButN>>

\* ---- Transport: dispatch of the server's frames ----------------------------------
\* The dispatch specification follows registerWatchers, handleRawMessage and
\* handleMessage.  A decoded frame is kept by its shape: rec, it is a record;
\* event, its event field ("none" when absent, "other" for any event outside
\* SocketEvent); inner, data.responseEvent or data.errorEvent is present; as,
\* the as field is present.

Fr(rec, event, inner, as) == [rec |-> rec, event |-> event, inner |-> inner, as |-> as]

Frames == {Fr(FALSE, "none", FALSE, FALSE), Fr(TRUE, "none", FALSE, FALSE),
           Fr(TRUE, "clientId", FALSE, FALSE), Fr(TRUE, "bootError", FALSE, FALSE),
           Fr(TRUE, "response", TRUE, FALSE), Fr(TRUE, "response", FALSE, FALSE),
           Fr(TRUE, "error", TRUE, FALSE), Fr(TRUE, "error", FALSE, FALSE),
           Fr(TRUE, "other", FALSE, FALSE), Fr(TRUE, "other", FALSE, TRUE)}

InitD ==
  /\ nFrames = 0
  /\ inbox = {}
  /\ handled = <<>>
  /\ clientId = 0
  /\ totalErrors = 0
  /\ health = [isConnected |-> FALSE, now |-> 0, connectTime |-> 0, lastPongTime |-> 0,
               totalMessages |-> 0, totalErrors |-> 0, avgResponseTime |-> 0,
               status |-> "none"]
  /\ retryOp = [given |-> 0, retries |-> 0, attempt |-> 0, st |-> "idle"]

\* handleRawMessage throws InvalidMessageError: the event field is missing, or
\* responseEvent or errorEvent is.
Throws(f) ==
  f.rec /\ (f.event = "none" \/ (f.event \in {"response", "error"} /\ ~f.inner))

\* The topics handleRawMessage emits for the decoded frame f.
Emits(f) ==
  IF ~f.rec THEN <<>>
  ELSE IF Throws(f) THEN <<"transport.error">>
  ELSE IF f.event \in {"clientId", "bootError"} THEN <<>>
  ELSE IF f.event = "response" THEN <<"responseEvent">>
  ELSE IF f.event = "error" THEN <<"errorEvent">>
  ELSE <<IF f.as THEN "as" ELSE "event">>

\* A message event: onMessage starts reading the Blob.
FrameArrives(f) ==
  /\ nFrames < MaxFrames
  /\ nFrames' = nFrames + 1
  /\ inbox' = inbox \cup {[n |-> nFrames + 1, f |-> f]}
  /\ UNCHANGED <<handled, clientId, totalErrors, health, retryOp>>
  /\ UNCHANGED <<tvars, wvars, xvarsButD>>

\* The arrayBuffer() promise of a frame resolves: the buffer is decoded and
\* handleRawMessage runs.  The reads of two Blobs are independent of each other.
FrameDecoded(m) ==
  /\ m \in inbox
  /\ inbox' = inbox \ {m}
  /\ handled' = Append(handled, [n |-> m.n, f |-> m.f, out |-> Emits(m.f)])
  /\ clientId' = IF m.f.rec /\ m.f.event = "clientId" THEN m.n ELSE clientId
  /\ totalErrors' = IF Throws(m.f) THEN totalErrors + 1 ELSE totalErrors
  /\ UNCHANGED <<nFrames, health, retryOp>>
  /\ UNCHANGED <<tvars, wvars, xvarsButD>>

\* ---- Transport: health ---------------------------------------------------------

MaxNow == 6           \* latest time of a call of getHealthStatus(), in ticks
MaxMessages == 10     \* largest connectionStats.totalMessages
PING_INTERVAL == 2    \* options.pingInterval, in ticks

\* What getConnectionMetrics() derives from the statistics: errorRate, the
\* percentage `toFixed(2)` (in hundredths of a percent, rounded), and
\* timeSinceLastPong, which is 0 while lastPongTime is 0.
GetConnectionMetrics(now, lpt, msgs, errs) ==
  [errorRate |-> IF msgs > 0 THEN (2 * errs * 10000 + msgs) \div (2 * msgs) ELSE 0,
   timeSinceLastPong |-> IF lpt > 0 THEN now - lpt ELSE 0]

GetHealthStatus(isConn, stats, avg) ==
  IF ~isConn \/ stats.timeSinceLastPong > PING_INTERVAL * 2 \/ stats.errorRate > 5000
    THEN "unhealthy"
  ELSE IF avg > 5000 \/ stats.errorRate > 1000 \/ 2 * stats.timeSinceLastPong > PING_INTERVAL * 3
    THEN "degraded"
  ELSE "healthy"

\* The call of getHealthStatus() of a run.  The transport it is called on has a
\* connection opened at connectTime, the last pong at or after it (0: none
\* yet) and not more errors than messages.  The call of getConnectionMetrics()
\* in it asks isRateLimited(), which stamps the limiter.
HealthCheck ==
  /\ health.status = "none"
  /\ \E isConn \in BOOLEAN, now \in 1 .. MaxNow, msgs \in 0 .. MaxMessages,
        avg \in {0, 5000, 5001} :
       \E ct \in 1 .. now, errs \in 0 .. msgs :
         \E lpt \in {0} \cup (ct .. now) :
           health' = [isConnected |-> isConn, now |-> now, connectTime |-> ct,
                      lastPongTime |-> lpt, totalMessages |-> msgs, totalErrors |-> errs,
                      avgResponseTime |-> avg,
                      status |-> GetHealthStatus(isConn,
                                   GetConnectionMetrics(now, lpt, msgs, errs), avg)]
  /\ rlRequests' = RateLimiterAfter(rlRequests)
  /\ UNCHANGED <<rs, shouldReconnect, closed, msgListener, pingInterval, connectPromise,
                 promises, calls, nCalls, sig, busL, closeL, messageQueue, srv,
                 frames, sentTimes, hist>>
  /\ UNCHANGED <<nFrames, inbox, handled, clientId, totalErrors, retryOp>>
  /\ UNCHANGED <<wvars, xvarsButD>>

\* ---- Transport: the retries of one call ------------------------------------------

MaxRetriesGiven == 2      \* largest CallOption.retries a caller passes
DefaultCallRetries == 10  \* the retries used when `options.retries` is falsy

\* call(action, data, options) reaches `sendWithRetry(send, options.retries || 10)`:
\* async-retry starts the first attempt.  given = 0 is `retries: 0`; `false`
\* is falsy alike.
SendWithRetry(given) ==
  /\ retryOp.st = "idle"
  /\ retryOp' = [given |-> given,
                 retries |-> IF given = 0 THEN DefaultCallRetries ELSE given,
                 attempt |-> 1, st |-> "running"]
  /\ UNCHANGED <<nFrames, inbox, handled, clientId, totalErrors, health>>
  /\ UNCHANGED <<tvars, wvars, xvarsButD>>

\* The sender of the running attempt settles: with the response ("ok"), with
\* an error of a class that is bailed on ("bail"), or with another error
\* ("lost", as on a lost connection), which async-retry retries while the
\* retries are not used up.
SenderSettles(k) ==
  /\ retryOp.st = "running"
  /\ retryOp' = [retryOp EXCEPT !.st =
                   IF k = "ok" THEN "resolved"
                   ELSE IF k = "bail" THEN "rejected"
                   ELSE IF retryOp.attempt <= retryOp.retries THEN "backoff"
                   ELSE "rejected"]
  /\ UNCHANGED <<nFrames, inbox, handled, clientId, totalErrors, health>>
  /\ UNCHANGED <<tvars, wvars, xvarsButD>>

\* The backoff timer of async-retry fires: the next attempt runs.
RetryAgain ==
  /\ retryOp.st = "backoff"
  /\ retryOp' = [retryOp EXCEPT !.attempt = @ + 1, !.st = "running"]
  /\ UNCHANGED <<nFrames, inbox, handled, clientId, totalErrors, health>>
  /\ UNCHANGED <<tvars, wvars, xvarsButD>>

\* ---- Beacon ---------------------------------------------------------------------

MaxBCalls == 2        \* calls of ready() and sendAndWaitFor() in a run
MaxRetriesOpt == 1    \* largest configured options.retry.retries
BeaconTimeout == 2    \* options.timeout, in ticks
DefaultRetries == 3   \* the retries used when `options.retry?.retries` is falsy

BCallIds == 1 .. MaxBCalls

\* The response type each verb of sendAndWaitFor is paired with.
ResponseType(kind) ==
  CASE kind = "ping" -> "pong"
    [] kind = "fetch" -> "fetchResult"
    [] OTHER -> "none"

NoBeaconCall == [kind |-> "none", st |-> "none", tries |-> 0, timer |-> 0, res |-> 0]

InitB ==
  /\ retriesOpt = 0
  /\ isStarted = FALSE
  /\ isBeaconReady = FALSE
  /\ iframeLoaded = FALSE
  /\ hs = [st |-> "idle", tries |-> 0, timer |-> 0]
  /\ bcalls = [c \in BCallIds |-> NoBeaconCall]
  /\ lastMsg = [type |-> "none", payload |-> 0]

\* `retries: this.options.retry?.retries || 3`
BeaconRetries == IF retriesOpt = 0 THEN DefaultRetries ELSE retriesOpt

\* One try of waitForBeaconReady's function: resolved at once when the flag is
\* set, else a timer and a 'ready' listener.
HsTry(tries, flag) ==
  IF flag THEN [st |-> "resolved", tries |-> tries, timer |-> 0]
          ELSE [st |-> "attempt", tries |-> tries, timer |-> BeaconTimeout]

\* What a call does once `await this.ready()` has settled with the handshake
\* in phase h: ready() returns, sendAndWaitFor makes its first try.
AfterReady(b, h) ==
  IF b.st # "waiting" THEN b
  ELSE IF h = "rejected" THEN [b EXCEPT !.st = "rejected", !.timer = 0]
  ELSE IF h # "resolved" THEN b
  ELSE IF b.kind = "ready" THEN [b EXCEPT !.st = "resolved", !.timer = 0]
  ELSE [b EXCEPT !.st = "attempt", !.tries = 1, !.timer = BeaconTimeout]

\* start() on a beacon constructed with options.retry.retries = retries; no
\* code reads the option before the beacon is started.
Start(retries) ==
  /\ ~isStarted
  /\ retriesOpt' = retries
  /\ isStarted' = TRUE
  /\ hs' = HsTry(1, isBeaconReady)
  /\ UNCHANGED <<isBeaconReady, iframeLoaded, bcalls, lastMsg>>
  /\ UNCHANGED <<gvars, tvars, wvars, xvarsButB>>

IframeLoad ==
  /\ ~iframeLoaded
  /\ iframeLoaded' = TRUE
  /\ UNCHANGED <<retriesOpt, isStarted, isBeaconReady, hs, bcalls, lastMsg>>
  /\ UNCHANGED <<gvars, tvars, wvars, xvarsButB>>

\* A try of the handshake fails: its timer fired, or beacon:discover could not
\* be sent. async-retry schedules the next try and calls onRetry, or rejects
\* when the tries are used up.
HsFail(reason) ==
  /\ hs.st = "attempt"
  /\ \/ reason = "timeout" /\ hs.timer = 0
     \/ reason = "send" /\ iframeLoaded
  /\ IF hs.tries <= BeaconRetries
       THEN /\ hs' = [hs EXCEPT !.st = "backoff", !.timer = 0]
            /\ isBeaconReady' = FALSE
            /\ UNCHANGED bcalls
       ELSE /\ hs' = [hs EXCEPT !.st = "rejected", !.timer = 0]
            /\ bcalls' = [c \in BCallIds |-> AfterReady(bcalls[c], "rejected")]
            /\ UNCHANGED isBeaconReady
  /\ UNCHANGED <<retriesOpt, isStarted, iframeLoaded, lastMsg>>
  /\ UNCHANGED <<gvars, tvars, wvars, xvarsButB>>

HsRetry ==
  /\ hs.st = "backoff"
  /\ hs' = HsTry(hs.tries + 1, isBeaconReady)
  /\ bcalls' = [c \in BCallIds |-> AfterReady(bcalls[c], hs'.st)]
  /\ UNCHANGED <<retriesOpt, isStarted, isBeaconReady, iframeLoaded, lastMsg>>
  /\ UNCHANGED <<gvars, tvars, wvars, xvarsButB>>

\* handleBeaconMessage: beacon:ready sets the flag and resolves the try that
\* listens; any other type resolves every try that listens for it.
ChildMessage(type, payload) ==
  /\ iframeLoaded
  /\ lastMsg' = [type |-> type, payload |-> payload]
  /\ IF type = "ready"
       THEN /\ isBeaconReady' = TRUE
            /\ hs' = IF hs.st = "attempt" THEN [hs EXCEPT !.st = "resolved", !.timer = 0] ELSE hs
            /\ bcalls' = [c \in BCallIds |-> AfterReady(bcalls[c], hs'.st)]
       ELSE /\ bcalls' = [c \in BCallIds |->
                 IF bcalls[c].st = "attempt" /\ ResponseType(bcalls[c].kind) = type
                   THEN [bcalls[c] EXCEPT !.st = "resolved", !.timer = 0, !.res = payload]
                   ELSE bcalls[c]]
            /\ UNCHANGED <<isBeaconReady, hs>>
  /\ UNCHANGED <<retriesOpt, isStarted, iframeLoaded>>
  /\ UNCHANGED <<gvars, tvars, wvars, xvarsButB>>

\* ready(), alone or as the first statement of sendAndWaitFor(): throws when
\* the beacon is not started, else races readyPromise with a timer.
BeaconCall(c, kind) ==
  /\ bcalls[c].st = "none"
  /\ bcalls' = [bcalls EXCEPT ![c] =
       IF ~isStarted THEN [NoBeaconCall EXCEPT !.kind = kind, !.st = "rejected"]
       ELSE AfterReady([NoBeaconCall EXCEPT !.kind = kind, !.st = "waiting", !.timer = BeaconTimeout], hs.st)]
  /\ UNCHANGED <<retriesOpt, isStarted, isBeaconReady, iframeLoaded, hs, lastMsg>>
  /\ UNCHANGED <<gvars, tvars, wvars, xvarsButB>>

\* A call fails: the timer of ready() fired ("ready"), the timer of a try
\* fired ("timeout"), or sendMessage threw a BeaconConnectionError ("send").
CallFail(c, reason) ==
  /\ \/ reason = "ready" /\ bcalls[c].st = "waiting" /\ bcalls[c].timer = 0
     \/ reason = "timeout" /\ bcalls[c].st = "attempt" /\ bcalls[c].timer = 0
     \/ reason = "send" /\ bcalls[c].st = "attempt" /\ bcalls[c].timer = BeaconTimeout
  /\ bcalls' = [bcalls EXCEPT ![c] =
       IF reason # "ready" /\ bcalls[c].tries <= BeaconRetries
         THEN [@ EXCEPT !.st = "backoff", !.timer = 0]
         ELSE [@ EXCEPT !.st = "rejected", !.timer = 0]]
  /\ UNCHANGED <<retriesOpt, isStarted, isBeaconReady, iframeLoaded, hs, lastMsg>>
  /\ UNCHANGED <<gvars, tvars, wvars, xvarsButB>>

CallRetry(c) ==
  /\ bcalls[c].st = "backoff"
  /\ bcalls' = [bcalls EXCEPT ![c] =
       [@ EXCEPT !.st = "attempt", !.tries = @ + 1, !.timer = BeaconTimeout]]
  /\ UNCHANGED <<retriesOpt, isStarted, isBeaconReady, iframeLoaded, hs, lastMsg>>
  /\ UNCHANGED <<gvars, tvars, wvars, xvarsButB>>

\* Time passes: every running timer loses a tick; a timer that is due fires
\* before more time passes.
BeaconTick ==
  LET running(b) == b.st \in {"waiting", "attempt"} IN
  /\ hs.st = "attempt" \/ \E c \in BCallIds : running(bcalls[c])
  /\ hs.st = "attempt" => hs.timer > 0
  /\ \A c \in BCallIds : running(bcalls[c]) => bcalls[c].timer > 0
  /\ hs' = IF hs.st = "attempt" THEN [hs EXCEPT !.timer = @ - 1] ELSE hs
  /\ bcalls' = [c \in BCallIds |->
       IF running(bcalls[c]) THEN [bcalls[c] EXCEPT !.timer = @ - 1] ELSE bcalls[c]]
  /\ UNCHANGED <<retriesOpt, isStarted, isBeaconReady, iframeLoaded, lastMsg>>
  /\ UNCHANGED <<gvars, tvars, wvars, xvarsButB>>

\* ---- Navigator ------------------------------------------------------------------

MaxHistory == 4       \* longest history of a run

\* The urls of a run, each one a string `new URL` accepts; "a" is iframe.src.
Urls == {"a", "b"}

InitG ==
  /\ urlHistory = <<"a">>
  /\ currentIndex = 0
  /\ canGoBack = FALSE
  /\ canGoForward = FALSE
  /\ navOut = <<>>
  /\ lastOp = [op |-> "new", url |-> "a"]

\* A visit that keeps the forward entries.
TruncatedMutant(h, i) == h

\* `this.urlHistory.slice(0, this.currentIndex + 1)`
Truncated(h, i) == SubSeq(h, 1, i + 1)

\* Beacon.navigate: the ready flag is reset and, when the beacon was started,
\* a new handshake replaces readyPromise.
Navigate ==
  /\ isBeaconReady' = FALSE
  /\ hs' = IF isStarted THEN HsTry(1, FALSE) ELSE hs
  /\ UNCHANGED <<retriesOpt, isStarted, iframeLoaded, bcalls, lastMsg>>

\* emitHistoryChange
HistoryChange(url, direction) ==
  [ev |-> "historyChange", url |-> url, dir |-> direction,
   back |-> FALSE, fwd |-> FALSE, idx |-> 0, len |-> 0]

\* updateNavigationState for index i and history h, followed by the events
\* `after`: the flags are recomputed and navigationStateChange is emitted
\* when one of them changed.
UpdateNavigationState(i, h, after) ==
  LET back == i > 0
      fwd == i < Len(h) - 1
  IN /\ canGoBack' = back
     /\ canGoForward' = fwd
     /\ navOut' = (IF canGoBack # back \/ canGoForward # fwd
                     THEN <<[ev |-> "navigationStateChange", url |-> "", dir |-> "",
                             back |-> back, fwd |-> fwd, idx |-> i, len |-> Len(h)]>>
                     ELSE <<>>) \o after

Visit(url) ==
  /\ currentIndex + 2 <= MaxHistory
  /\ Navigate
  /\ urlHistory' = Append(IF currentIndex < Len(urlHistory) - 1
                            THEN Truncated(urlHistory, currentIndex)
                            ELSE urlHistory, url)
  /\ currentIndex' = Len(urlHistory') - 1
  /\ UpdateNavigationState(currentIndex', urlHistory', <<HistoryChange(url, "push")>>)
  /\ lastOp' = [op |-> "visit", url |-> url]
  /\ UNCHANGED <<tvars, wvars, xvarsButB>>

\* The child reports a navigation of its own: addToHistory(payload.newUrl).
UrlChange(url) ==
  /\ currentIndex + 2 <= MaxHistory
  /\ urlHistory' = Append(IF currentIndex < Len(urlHistory) - 1
                            THEN Truncated(urlHistory, currentIndex)
                            ELSE urlHistory, url)
  /\ currentIndex' = Len(urlHistory') - 1
  /\ UpdateNavigationState(currentIndex', urlHistory', <<>>)
  /\ lastOp' = [op |-> "urlChange", url |-> url]
  /\ lastMsg' = [type |-> "urlChange", payload |-> 0]
  /\ UNCHANGED <<retriesOpt, isStarted, isBeaconReady, iframeLoaded, hs, bcalls>>
  /\ UNCHANGED <<tvars, wvars, xvarsButB>>

GoBack ==
  /\ canGoBack
  /\ currentIndex' = currentIndex - 1
  /\ UpdateNavigationState(currentIndex', urlHistory,
        <<HistoryChange(urlHistory[currentIndex' + 1], "back")>>)
  /\ Navigate
  /\ lastOp' = [op |-> "goBack", url |-> urlHistory[currentIndex' + 1]]
  /\ UNCHANGED urlHistory
  /\ UNCHANGED <<tvars, wvars, xvarsButB>>

GoForward ==
  /\ canGoForward
  /\ currentIndex' = currentIndex + 1
  /\ UpdateNavigationState(currentIndex', urlHistory,
        <<HistoryChange(urlHistory[currentIndex' + 1], "forward")>>)
  /\ Navigate
  /\ lastOp' = [op |-> "goForward", url |-> urlHistory[currentIndex' + 1]]
  /\ UNCHANGED urlHistory
  /\ UNCHANGED <<tvars, wvars, xvarsButB>>

\* currentIndex is always an index of urlHistory, so the branch that treats
\* the call as a visit is never taken.
ReplaceState(url) ==
  /\ urlHistory' = [urlHistory EXCEPT ![currentIndex + 1] = url]
  /\ Navigate
  /\ navOut' = <<HistoryChange(url, "replace")>>
  /\ lastOp' = [op |-> "replaceState", url |-> url]
  /\ UNCHANGED <<currentIndex, canGoBack, canGoForward>>
  /\ UNCHANGED <<tvars, wvars, xvarsButB>>

\* ---- EventManager ---------------------------------------------------------------

MaxInstances == 3     \* sessions and beacons constructed in a run

\* After the first `new NotebookInstance`: createInstance() has put a new mitt
\* in EE, and the constructor has registered the session's listeners.
InitE ==
  /\ EE = 1
  /\ nInst = 1
  /\ listeners = {[owner |-> 1, ee |-> 1]}
  /\ delivered = [from |-> 0, to |-> {}]

\* EventManager.listen by instance i: `EE.on(event, callback)`, on the mitt
\* that EE holds now.
BusListen(i) ==
  /\ i \in 1 .. nInst
  /\ listeners' = listeners \cup {[owner |-> i, ee |-> EE]}
  /\ UNCHANGED <<EE, nInst, delivered>>
  /\ UNCHANGED <<tvars, wvars, xvarsButE>>

\* EventManager.emit by the transport of instance i: `EE.emit(event, data)`.
BusEmit(i) ==
  /\ i \in 1 .. nInst
  /\ delivered' = [from |-> i, to |-> {l.owner : l \in {x \in listeners : x.ee = EE}}]
  /\ UNCHANGED <<EE, nInst, listeners>>
  /\ UNCHANGED <<tvars, wvars, xvarsButE>>

\* new NotebookInstance: EventManager.createInstance() replaces the mitt in EE;
\* the constructor registers the listeners of the new session.
NewInstance ==
  /\ nInst < MaxInstances
  /\ EE' = EE + 1
  /\ nInst' = nInst + 1
  /\ listeners' = listeners \cup {[owner |-> nInst + 1, ee |-> EE + 1]}
  /\ UNCHANGED delivered
  /\ UNCHANGED <<tvars, wvars, xvarsButE>>

\* new Beacon: EventManager.make() returns the instance there is; its
\* navigator registers the urlChange listener.
NewBeacon ==
  /\ nInst < MaxInstances
  /\ nInst' = nInst + 1
  /\ listeners' = listeners \cup {[owner |-> nInst + 1, ee |-> EE]}
  /\ UNCHANGED <<EE, delivered>>
  /\ UNCHANGED <<tvars, wvars, xvarsButE>>

Init == InitT /\ InitW /\ InitK /\ InitP /\ InitF /\ InitN /\ InitD /\ InitB /\ InitG /\ InitE

Next ==
  \/ \E o \in CallOptions : Invoke(o.tm, o.sg)
  \/ \E c \in Calls : Handler(c)
  \/ \E t \in Calls, ok \in BOOLEAN : Reply(t, ok)
  \/ \E c \in Calls : RequestTimeout(c)
  \/ \E t \in Calls : Abort(t)
  \/ \E c \in Calls : RetryFire(c)
  \/ SocketOpen
  \/ \E code \in CloseCodes, reason \in Reasons : SocketClose(code, reason)
  \/ SocketError
  \/ \E p \in Calls : ConnectTimeout(p)
  \/ Close
  \/ Tick

Spec == Init /\ [][Next]_vars

NextWatch ==
  \/ \E p \in Paths : FsWatch(p)
  \/ \E p \in Paths : FsDispose(p)
  \/ Ready
  \/ WhenConnected
  \/ Connected
  \/ SessionOpen
  \/ SessionClose
  \/ SessionDispose

SpecWatch == Init /\ [][NextWatch]_vars

NextPing ==
  \/ \E byCall \in BOOLEAN : KeepaliveOpen(byCall)
  \/ PingTick
  \/ Pong
  \/ \E k \in PingFailures : PingFail(k)
  \/ KeepaliveClose

SpecPing == Init /\ [][NextPing]_vars

NextTerminal ==
  \/ TerminalSpawn
  \/ SpawnResponse
  \/ TerminalOutput
  \/ TerminalStarted
  \/ \E code \in ExitCodes : TerminalClose(code)
  \/ Kill
  \/ CloseInput

SpecTerminal == Init /\ [][NextTerminal]_vars

NextSearch ==
  \/ Search
  \/ \E end \in BOOLEAN, ret \in Returns : SearchEvent(end, ret)
  \/ \E value \in BOOLEAN : OnMatchResolves(value)
  \/ SearchSettles

SpecSearch == Init /\ [][NextSearch]_vars

NextInit ==
  \/ ReadyCall
  \/ InitSocketOpen
  \/ InitSocketClose
  \/ \E ok \in BOOLEAN : PingResponse(ok)
  \/ \E type \in InitTypes : InitEvent(type)
  \/ Reconnect

SpecInit == Init /\ [][NextInit]_vars

NextDispatch ==
  \/ \E f \in Frames : FrameArrives(f)
  \/ \E m \in inbox : FrameDecoded(m)

SpecDispatch == Init /\ [][NextDispatch]_vars

NextBeacon ==
  \/ \E retries \in 0 .. MaxRetriesOpt : Start(retries)
  \/ IframeLoad
  \/ \E reason \in {"timeout", "send"} : HsFail(reason)
  \/ HsRetry
  \/ \E type \in {"ready", "pong", "fetchResult"}, payload \in {1, 2} : ChildMessage(type, payload)
  \/ \E c \in BCallIds, kind \in {"ready", "ping", "fetch"} : BeaconCall(c, kind)
  \/ \E c \in BCallIds, reason \in {"ready", "timeout", "send"} : CallFail(c, reason)
  \/ \E c \in BCallIds : CallRetry(c)
  \/ BeaconTick

SpecBeacon == Init /\ [][NextBeacon]_vars

NextHealth == HealthCheck

SpecHealth == Init /\ [][NextHealth]_vars

NextRetry ==
  \/ \E given \in 0 .. MaxRetriesGiven : SendWithRetry(given)
  \/ \E k \in {"ok", "bail", "lost"} : SenderSettles(k)
  \/ RetryAgain

SpecRetry == Init /\ [][NextRetry]_vars

NextBus ==
  \/ \E i \in 1 .. MaxInstances : BusListen(i)
  \/ \E i \in 1 .. MaxInstances : BusEmit(i)
  \/ NewInstance
  \/ NewBeacon

SpecBus == Init /\ [][NextBus]_vars

NextNavigator ==
  \/ \E url \in Urls : Visit(url)
  \/ \E url \in Urls : UrlChange(url)
  \/ GoBack
  \/ GoForward
  \/ \E url \in Urls : ReplaceState(url)

SpecNavigator == Init /\ [][NextNavigator]_vars

TypeOK ==
  /\ rs \in {"CLOSED", "CONNECTING", "OPEN", "CLOSING"}
  /\ nCalls \in 0..MaxCalls
  /\ connectPromise \in {0} \cup promises
  /\ busL \subseteq Calls /\ closeL \subseteq Calls
  /\ Len(messageQueue) <= MaxQueue
  /\ \A c \in Calls :
        /\ calls[c].outcome \in Kinds \cup {"Response", "none"}
        /\ calls[c].attempt \in 0..(MaxRetries + 1)
        /\ frames[c] \in 0..(MaxRetries + 1)
  /\ watches \subseteq Paths
  /\ epoch \in 0..MaxEpochs

\* ---- properties of the transport ------------------------------------------------

Settled(c) == calls[c].phase = "done"

\* The causes the specification lists for a settlement: response topic, error
\* topic, per-call timeout, abort signal, socket close or error.
ListedCauses == {"Response", "ErrorEvent", "Timeout", "Abort", "ConnLost", "RateLimitClose",
                 "ConnFail"}

\* What call() settles with besides: the limiter's rejection and the timer of
\* #connect().
OtherCauses == {"RateLimited", "ConnTimeout"}

NoListenerLeft(c) == c \notin closeL /\ (\A d \in busL : Topic(d) # Topic(c))

\* C1 as written: every settled request was settled by one of the five listed
\* causes and none of its listeners remains.
C1_AsWritten ==
  \A c \in Calls : Settled(c) => calls[c].outcome \in ListedCauses /\ NoListenerLeft(c)

\* C1, amended: a request is settled once (a settled request never changes), by
\* a listed cause, by the limiter's rejection or by the connect timer, and a
\* settled request has no response, error or close listener left.
C1_SettledOnce ==
  /\ [](\A c \in Calls :
         Settled(c) => calls[c].outcome \in ListedCauses \cup OtherCauses /\ NoListenerLeft(c))
  /\ [][\A c \in Calls : Settled(c) => calls'[c] = calls[c]]_vars

\* C1 witness: one request settled by the connect timer, another by a response.
C1_Witness ==
  /\ \E c \in Calls : Settled(c) /\ calls[c].outcome = "ConnTimeout"
  /\ \E c \in Calls : Settled(c) /\ calls[c].outcome = "Response"

\* C2: a request in flight when close() ran has no frame sent after the close.
C2_NotResentAfterClose == [][\A c \in hist.atClose : frames'[c] = frames[c]]_vars

\* C5: a close with code 1000 or 1008 is followed by no reconnection attempt:
\* the socket that was open is closed, not connecting, after the event.
C5_StopCodesStayClosed ==
  [][(rs = "OPEN" /\ rs' # "OPEN" /\ hist'.lastClose \in {"stop", "policy"}) => rs' = "CLOSED"]_vars

\* C6: after a close 1008 with a rate limit reason, an invocation fails fast: it
\* is settled when call() returns, and no frame leaves.
C6_FailFastAfterPolicyClose ==
  [][(hist.lastClose = "policy" /\ nCalls' = nCalls + 1)
       => (calls'[nCalls'].phase = "done" /\ frames' = frames)]_vars

\* C7: the frames sent within one window never exceed maxRequests.
C7_WindowBound == Len(sentTimes) <= MaxRequests

C9_TimeoutNotRetried ==
  \A c \in Calls : \A i \in DOMAIN calls[c].errs : calls[c].errs[i] # "Timeout"

\* C10: a call made with a signal that is aborted already fails at once with the
\* abort error: it never waits for a connection, a reply or a retry, and it
\* settles with nothing else.
C10_PreAbortedFailsAtOnce ==
  \A c \in hist.preAborted :
     /\ calls[c].phase \in {"resume", "done"}
     /\ Settled(c) => calls[c].outcome = "Abort"

InQueue(c) == \E i \in DOMAIN messageQueue : messageQueue[i].call = c

\* C39: once the signal of a request is aborted no frame leaves for it, be it
\* aborted before the invoke or while the request waits for the socket; a
\* request invoked with an aborted signal is not queued.
C39_NoFrameAfterAbort ==
  /\ [][\A t \in Calls : sig[t] = "aborted" => frames'[t] = frames[t]]_vars
  /\ [](\A c \in hist.preAborted : ~InQueue(c))

\* A request issued while the socket was not open that still waits for it.
WaitsForSocket(c) == calls[c].phase = "connecting" /\ ~closed

\* C11: a request that waits for the socket of a transport that was not closed
\* is held in the message queue, and no frame has been sent for its attempt.
C11_WaitingIsQueued ==
  \A c \in Calls : WaitsForSocket(c) => InQueue(c)

QueueNeverUsed == messageQueue = <<>>

\* C18: the watch map holds exactly the watches that were created and not yet
\* disposed, so that the reconnect handler re-issues no disposed watch.
C18_WatchMapIsLiveWatches ==
  \A p \in Paths : (p \in watches) <=> (subs[p] = "live")

\* C36: a live watch has exactly one listener on fs.watch.<path>, so that a
\* server event calls onChange once, however often the socket has opened; the
\* listeners of a path never outnumber its live watches.
C36_OneListenerPerLiveWatch ==
  \A p \in Paths :
    /\ subs[p] = "live" => fsL[p] = 1
    /\ fsL[p] <= (IF subs[p] = "live" THEN 1 ELSE 0)

\* C21: dispose() leaves no listener of the session on the event bus or on the
\* socket, and the transport closed.
C21_DisposeReleasesAll ==
  [][(~closed /\ closed')
       => (/\ rs' = "CLOSED"
           /\ openL' = {} /\ onCloseL' = {}
           /\ \A p \in Paths : fsL'[p] = 0)]_vars

\* C31: at most one connection attempt is in flight; a call that starts to wait
\* while one is in flight waits on it; a call on an open socket starts none;
\* the socket is reopened only by a call that starts an attempt while none is
\* in flight.
C31_ConnectCoalesced ==
  /\ [](Cardinality(promises) <= 1)
  /\ [][\A c \in Calls :
          (calls[c].phase # "connecting" /\ calls'[c].phase = "connecting" /\ promises # {})
            => calls'[c].waitOn \in promises]_vars
  /\ [][rs = "OPEN" => promises' \subseteq promises]_vars
  /\ [][(rs = "CLOSED" /\ rs' = "CONNECTING") => (promises = {} /\ promises' # {})]_vars

\* C32: a transport whose socket is open and that has a request in flight has
\* its keepalive timer; a closed transport has none.
C32_KeepaliveWhileConnected ==
  /\ (rs = "OPEN" /\ ~closed /\ \E c \in Calls : calls[c].phase = "pending") => pingInterval
  /\ closed => ~pingInterval

\* C33: once close() has run the socket only finishes closing: no step opens it
\* or starts a connection, and no frame is sent.
C33_ClosedStaysClosed ==
  /\ [][closed => (rs' \in {rs, "CLOSED"} /\ promises' \subseteq promises)]_vars
  /\ [][closed => frames' = frames]_vars

\* ---- properties of the keepalive ----

\* C13: an open connection with the keepalive running is never left without a
\* pong for more than 3 ping intervals (one more is allowed for the check to
\* run): it has been force-reconnected before.
C13_SilentConnectionReconnected ==
  (rs = "OPEN" /\ pingInterval)
     => clock - Max(lastPongTime, openedAt) <= PingFactor + 1

\* ---- properties of the terminal ----

\* C14: from the moment the terminal.spawn frame is sent until the process is
\* terminated the output listener of spawn is on the bus, so that no output
\* event of the process is lost, those before the spawn response included.
C14_ListensBeforeSpawn ==
  (proc # "idle" /\ ended = {}) => (outputL > 0 /\ lostOutput = 0)

\* C15: once the server has reported the end of the process with terminal.close
\* the exit promise holds the reported exit code, and it holds no value before.
C15_ExitIsReportedCode ==
  /\ "close" \in ended => exit = exitCode
  /\ exit # {} => "close" \in ended

\* C16: once the process is terminated (terminal.close from the server, kill(),
\* the input stream closed) no bus listener of spawn is left and the output
\* stream is closed.
C16_TerminationReleasesAll ==
  (proc = "running" /\ ended # {})
     => (outputL = 0 /\ startedL = 0 /\ outputClosed)

\* C22: disposal is idempotent: kill() on a process handle that was killed
\* before sends no further terminal.close frame.
C22_SecondKillIsSilent ==
  [][("kill" \in ended) => closeFrames' = closeFrames]_vars

\* ---- properties of the text search ----

\* C17: once onMatch has returned false, at once or through its promise, the
\* subscription on fs.text.search.<sid> is disposed and onMatch is not called
\* again; the subscription is disposed too once the fs.textSearch request has
\* settled.
C17_StoppedSearchIsSilent ==
  /\ []((stopped \/ req = "settled") => searchL = 0)
  /\ [][(stopped \/ req = "settled") => invoked' = invoked]_vars

\* An event arrives after a promise of onMatch resolved false while the request
\* is still pending: onMatch is not called for it.
C17_Witness ==
  /\ stopped /\ req = "pending"
  /\ emitted > invoked
  /\ awaited[TRUE] > 0

\* ---- properties of the dispatch ----

\* The rule table of the specification: what is emitted for a decoded frame.
RuleTable(f) ==
  IF f.event = "clientId" THEN <<"clientId">>
  ELSE IF f.event = "bootError" THEN <<>>
  ELSE IF f.event = "response" THEN <<"responseEvent">>
  ELSE IF f.event = "error" THEN <<"errorEvent">>
  ELSE <<IF f.as THEN "as" ELSE "event">>

WellFormed(f) == f.rec /\ ~Throws(f)

\* C23: for every well-formed frame the transport emits what the rule table
\* says and nothing else; for the client-id frame it records the id and emits
\* the local topic.
C23_DispatchByRuleTable ==
  \A i \in DOMAIN handled :
     WellFormed(handled[i].f) => handled[i].out = RuleTable(handled[i].f)

\* C24: for every malformed frame exactly one transport.error event is emitted
\* and nothing else, and the frames handled after it are dispatched.
C24_MalformedFrameDropped ==
  \A i \in DOMAIN handled :
     ~WellFormed(handled[i].f) => handled[i].out = <<"transport.error">>

\* C25: the frames of a topic are handled in the order in which they arrived.
C25_HandledInArrivalOrder ==
  \A i, j \in DOMAIN handled :
     (i < j /\ handled[i].out # <<>> /\ handled[i].out = handled[j].out)
        => handled[i].n < handled[j].n

\* ---- properties of the initialization ----

\* The result of the notebook.initialized event number n, as received.
ReceivedResult(v) == v.n \in DOMAIN initLog /\ initLog[v.n] = v.type

C20_ReconnectResolves ==
  rc # "none" => (rc = "resolved" /\ "watchConnection" \in openL)

\* ---- properties of the beacon ---------------------------------------------------

\* C26: the handshake is tried again after a failed try, at most the configured
\* number of retries; the ready flag is false when a try has failed; a ready()
\* call that waits on the handshake fails only when the handshake has failed.
C26_HandshakeRetried ==
  /\ [](hs.tries <= retriesOpt + 1)
  /\ [][(hs.st = "attempt" /\ hs'.st = "backoff") => ~isBeaconReady']_vars
  /\ [][\A c \in BCallIds :
          (bcalls[c].kind = "ready" /\ bcalls[c].st = "waiting" /\ bcalls'[c].st = "rejected")
            => hs'.st = "rejected"]_vars

\* Two calls of the same verb are never outstanding together.
OnePerVerb ==
  \A c, d \in BCallIds :
    (c # d /\ bcalls[c].st \in {"waiting", "attempt", "backoff"}
           /\ bcalls[d].st \in {"waiting", "attempt", "backoff"})
      => bcalls[c].kind # bcalls[d].kind

\* C27: a try is resolved by a child message of its verb's response type, with
\* that message's payload; with one call per verb a message resolves at most
\* one call; a call is tried at most the configured number of retries again,
\* and not again after an error that is not a connection error.
C27_MatchedByVerbPair ==
  /\ [](\A c \in BCallIds : bcalls[c].tries <= retriesOpt + 1)
  /\ [][\A c \in BCallIds :
          (bcalls[c].st = "attempt" /\ bcalls'[c].st = "resolved")
            => /\ lastMsg'.type = ResponseType(bcalls[c].kind)
               /\ bcalls'[c].res = lastMsg'.payload]_vars
  /\ [][OnePerVerb =>
          Cardinality({c \in BCallIds :
             bcalls[c].st = "attempt" /\ bcalls'[c].st = "resolved"}) <= 1]_vars
  /\ [][\A c \in BCallIds :
          (bcalls[c].st = "attempt" /\ bcalls[c].timer = 0 /\ bcalls'[c].st # "attempt")
            => bcalls'[c].st \in {"resolved", "rejected"}]_vars

\* ---- properties of the navigator ------------------------------------------------

\* C28: a visit(url) with history h and current index i leaves the history
\* h[0..i] followed by url, the current index i+1, canGoForward false and
\* canGoBack true.
C28_VisitTruncatesAndAppends ==
  [][(lastOp'.op = "visit" /\ currentIndex' # currentIndex)
       => /\ urlHistory' = Append(SubSeq(urlHistory, 1, currentIndex + 1), lastOp'.url)
          /\ currentIndex' = currentIndex + 1
          /\ ~canGoForward'
          /\ canGoBack']_vars

\* A visit made after going back has discarded the forward entry: it emitted
\* a navigationStateChange, so canGoForward was true before it.
C28_Witness ==
  /\ lastOp = [op |-> "visit", url |-> "a"]
  /\ urlHistory = <<"a", "b", "a">>
  /\ currentIndex = 2
  /\ \E k \in DOMAIN navOut : navOut[k].ev = "navigationStateChange" /\ ~navOut[k].fwd

\* C29: an operation that changed the history or the current index emitted a
\* historyChange for the current url and a navigationStateChange with the
\* state after the change.
C29_MutationEmitsBoth ==
  [][(urlHistory' # urlHistory \/ currentIndex' # currentIndex)
       => /\ \E k \in DOMAIN navOut' :
               /\ navOut'[k].ev = "historyChange"
               /\ navOut'[k].url = urlHistory'[currentIndex' + 1]
          /\ \E k \in DOMAIN navOut' :
               /\ navOut'[k].ev = "navigationStateChange"
               /\ navOut'[k].idx = currentIndex'
               /\ navOut'[k].len = Len(urlHistory')
               /\ navOut'[k].back = canGoBack'
               /\ navOut'[k].fwd = canGoForward']_vars

\* C40: the child's urlChange for the url the navigator has just navigated to
\* (by visit, goBack or goForward) leaves the history and the index as the
\* operation left them, so that a visit adds one entry and goBack keeps the
\* forward entries for goForward; the index is always an index of the history
\* and the two flags say whether it has a predecessor and a successor.
C40_HistoryMirrorsNavigations ==
  /\ [][(/\ lastOp.op \in {"visit", "goBack", "goForward"}
          /\ lastOp'.op = "urlChange"
          /\ lastOp'.url = lastOp.url)
         => (urlHistory' = urlHistory /\ currentIndex' = currentIndex)]_vars
  /\ [](/\ 0 <= currentIndex
        /\ currentIndex < Len(urlHistory)
        /\ canGoBack = (currentIndex > 0)
        /\ canGoForward = (currentIndex < Len(urlHistory) - 1))

\* ---- properties of the health status --------------------------------------------

\* C30: getHealthStatus returns unhealthy when the transport is not connected,
\* when no pong was received for two ping intervals, or when more than 50% of
\* the messages were errors; else degraded when the average response time is
\* above 5 s or more than 10% were errors; else healthy.
C30_HealthByThresholds ==
  LET lastPong == IF health.lastPongTime > 0 THEN health.lastPongTime ELSE health.connectTime
      rateAbove(pc) == health.totalErrors * 100 > pc * health.totalMessages
  IN health.status # "none" =>
       health.status =
         IF ~health.isConnected \/ health.now - lastPong > 2 * PING_INTERVAL \/ rateAbove(50)
           THEN "unhealthy"
         ELSE IF health.avgResponseTime > 5000 \/ rateAbove(10)
           THEN "degraded"
         ELSE "healthy"

\* C38: a call is attempted at most retries + 1 times, retries being the
\* CallOption given; with retries 0 (or false) the first attempt is the only
\* one, and its failure rejects the promise.
C38_AttemptsBounded ==
  /\ [](retryOp.st # "idle" => retryOp.attempt <= retryOp.given + 1)
  /\ [][(retryOp.given = 0 /\ retryOp.st = "running" /\ retryOp'.st # "running")
          => retryOp'.st \in {"resolved", "rejected"}]_vars

\* C37: reading the metrics or the health status leaves the rate limiter's
\* window as it was, so that a later invoke is limited only by invokes.
C37_ObservationsArePure ==
  [][health' # health
       => (/\ rlRequests' = rlRequests
           /\ IsRateLimited(rlRequests') => IsRateLimited(rlRequests))]_vars

\* ---- properties of the event bus ------------------------------------------------

\* C35: every listener an instance registered is on the emitter the instance
\* uses, whatever was constructed since; an event emitted by the transport of
\* an instance reaches listeners of that instance only.
C35_OwnEventBus ==
  /\ \A l \in listeners : l.ee = EE
  /\ delivered.to \subseteq {delivered.from}

\* ---- properties of the session ------------------------------------------------------

\* C34: no registration through onDidConnect or onDidClose removes a listener
\* registered before: until the session is disposed the listeners of
\* watchConnection, which emit okra.connected and okra.disconnected, stay.
C34_ListenersKept ==
  /\ [][~closed' => (openL \subseteq openL' /\ onCloseL \subseteq onCloseL')]_vars
  /\ [](~closed => ("watchConnection" \in openL /\ "watchConnection" \in onCloseL))

Received(p, f) == \E i \in DOMAIN wlog[p] : wlog[p][i] = f

\* C3: on every connection the server has received fs.watch for every watch
\* that is not disposed.
C3_WatchReissued ==
  \A p \in Paths : (rs = "OPEN" /\ subs[p] = "live") => Received(p, "fs.watch")

\* C4: on a connection on which a watch was disposed the server received one
\* fs.watch and then one fs.unwatch for that path.
C4_OneWatchOneUnwatch ==
  \A p \in Paths : Received(p, "fs.unwatch") => wlog[p] = <<"fs.watch", "fs.unwatch">>

====
